---- MODULE Spec2Model ----
(***************************************************************************)
(* Model of models/train_full.py: the training loop `train` (checkpoint    *)
(* policy, is_better, checkpoint file names, the configuration record)     *)
(* and the batch predictor `predict_age_gender`.                           *)
(***************************************************************************)
EXTENDS Integers, Sequences, FiniteSets, TLC

(***************************************************************************)
(* Bounds of the model.                                                    *)
(***************************************************************************)
MaxEpochs == 2        \* n_epochs is drawn from 1..MaxEpochs
MaxStepsSave == 2     \* steps_save is drawn from 1..MaxStepsSave
MaxMetric == 2        \* every epoch metric is drawn from 1..MaxMetric
NTrainBatches == 1    \* batches yielded by loader_train in one epoch
NValBatches == 1      \* batches yielded by loader_valid in one epoch

(***************************************************************************)
(* Python values.  Every value of a dict is a record of the same shape so  *)
(* that any two values can be compared: t is the Python type, s the text   *)
(* of a str/float/list value, n the number of an int/bool/metric value.    *)
(***************************************************************************)
StrV(s) == [t |-> "str", s |-> s, n |-> 0]
IntV(n) == [t |-> "int", s |-> "", n |-> n]
FloatV(s) == [t |-> "float", s |-> s, n |-> 0]
BoolV(b) == [t |-> "bool", s |-> "", n |-> IF b THEN 1 ELSE 0]
ListV(s) == [t |-> "list", s |-> s, n |-> 0]
NoneV == [t |-> "none", s |-> "", n |-> 0]

(***************************************************************************)
(* Python dicts keep insertion order: a dict is a sequence of entries.     *)
(***************************************************************************)
Keys(dct) == {dct[i].k : i \in 1..Len(dct)}

\* dict.get(key, None)
Get(dct, key) ==
  IF key \in Keys(dct)
  THEN (CHOOSE e \in {dct[i] : i \in 1..Len(dct)} : e.k = key).v
  ELSE NoneV

\* d[key] = val : replaces in place, or appends a new entry
SetItem(dct, key, val) ==
  IF key \in Keys(dct)
  THEN [i \in 1..Len(dct) |-> IF dct[i].k = key THEN [k |-> key, v |-> val] ELSE dct[i]]
  ELSE Append(dct, [k |-> key, v |-> val])

\* d.update(other)
RECURSIVE Update(_, _)
Update(dct, other) ==
  IF other = <<>> THEN dct
  ELSE Update(SetItem(dct, Head(other).k, Head(other).v), Tail(other))

\* list(d.values())
Values(dct) == [i \in 1..Len(dct) |-> dct[i].v]

(***************************************************************************)
(* Text: a Python str is a sequence of one-character strings.              *)
(***************************************************************************)
Chars(s) ==
  CASE s = "" -> <<>>
    [] s = "1" -> <<"1">>
    [] s = "0.01" -> <<"0", ".", "0", "1">>
    [] s = "[32, 64, 128]" -> <<"[", "3", "2", ",", " ", "6", "4", ",", " ", "1", "2", "8", "]">>
    [] s = "sgd" -> <<"s", "g", "d">>
    [] s = "adam" -> <<"a", "d", "a", "m">>
    [] s = "adamw" -> <<"a", "d", "a", "m", "w">>
    [] s = "rmsprop" -> <<"r", "m", "s", "p", "r", "o", "p">>
    [] s = "min_loss" -> <<"m", "i", "n", "_", "l", "o", "s", "s">>
    [] s = "min_mse" -> <<"m", "i", "n", "_", "m", "s", "e">>
    [] s = "max_acc" -> <<"m", "a", "x", "_", "a", "c", "c">>
    [] s = "max_val_acc" -> <<"m", "a", "x", "_", "v", "a", "l", "_", "a", "c", "c">>
    [] s = "max_val_mcc" -> <<"m", "a", "x", "_", "v", "a", "l", "_", "m", "c", "c">>
    [] s = "max_foo" -> <<"m", "a", "x", "_", "f", "o", "o">>
    [] s = "True" -> <<"T", "r", "u", "e">>
    [] s = "False" -> <<"F", "a", "l", "s", "e">>
    [] s = "None" -> <<"N", "o", "n", "e">>

Digit(n) == <<"0", "1", "2", "3", "4", "5", "6", "7", "8", "9">>[n + 1]

\* str(n) for an int n >= 0
RECURSIVE IntStr(_)
IntStr(n) == IF n < 10 THEN <<Digit(n)>> ELSE IntStr(n \div 10) \o <<Digit(n % 10)>>

\* repr(v), as str(list) applies it to each element
Repr(v) ==
  CASE v.t = "str" -> <<"'">> \o Chars(v.s) \o <<"'">>
    [] v.t = "int" -> IntStr(v.n)
    [] v.t = "float" -> Chars(v.s)
    [] v.t = "list" -> Chars(v.s)
    [] v.t = "bool" -> IF v.n = 1 THEN Chars("True") ELSE Chars("False")
    [] v.t = "none" -> Chars("None")

\* ", ".join(repr(v) for v in vals)
RECURSIVE JoinRepr(_)
JoinRepr(vals) ==
  IF vals = <<>> THEN <<>>
  ELSE IF Len(vals) = 1 THEN Repr(vals[1])
  ELSE Repr(vals[1]) \o <<",", " ">> \o JoinRepr(Tail(vals))

\* str(a_list)
StrList(vals) == <<"[">> \o JoinRepr(vals) \o <<"]">>

\* s.replace(a, b) for a single character a and a text b of length 0 or 1
Replace(s, a, b) ==
  IF b = <<>>
  THEN SelectSeq(s, LAMBDA c : c # a)
  ELSE [i \in 1..Len(s) |-> IF s[i] = a THEN b[1] ELSE s[i]]

(***************************************************************************)
(* train: parameters and configuration.                                    *)
(***************************************************************************)
Optimizers == {"sgd", "adam", "adamw"}
MinModes == {"min_loss", "min_mse"}
MaxModes == {"max_acc", "max_val_acc", "max_val_mcc"}
OptimizerInputs == Optimizers \cup {"rmsprop"}
ModeInputs == MinModes \cup MaxModes \cup {"max_foo"}

\* the metric keys written at a save, in the order they are written
MetricKeys == <<"train_loss", "val_mse_age", "train_acc", "val_acc", "val_mcc">>
MetricKeySet == {MetricKeys[i] : i \in 1..Len(MetricKeys)}
RunStateKeys == {"epoch"} \cup MetricKeySet

\* parameters of train that the model keeps at one value
lr == FloatV("0.01")
train_batch_size == IntV(64)
loss_age_weight == FloatV("0.01")
suffix == StrV("1")

\* variant of ParamKey without the train_ prefix
ParamKeyPlain(k) == k
\* line 79: the key f"train_{k}" under which dict_param stores the local k
ParamKey(k) ==
  CASE k = "lr" -> "train_lr"
    [] k = "optimizer_name" -> "train_optimizer_name"
    [] k = "batch_size" -> "train_batch_size"
    [] k = "scheduler_mode" -> "train_scheduler_mode"
    [] k = "loss_age_weight" -> "train_loss_age_weight"
    [] k = "suffix" -> "train_suffix"

\* dict_param: the locals of train named in the list, in the order of locals()
DictParam(opt, mode) ==
  << [k |-> ParamKey("lr"), v |-> lr],
     [k |-> ParamKey("optimizer_name"), v |-> StrV(opt)],
     [k |-> ParamKey("batch_size"), v |-> train_batch_size],
     [k |-> ParamKey("scheduler_mode"), v |-> StrV(mode)],
     [k |-> ParamKey("loss_age_weight"), v |-> loss_age_weight],
     [k |-> ParamKey("suffix"), v |-> suffix] >>

TrainParamKeys == {"train_lr", "train_optimizer_name", "train_batch_size",
                   "train_scheduler_mode", "train_loss_age_weight", "train_suffix"}

\* a model configuration as the main block builds it
FreshDict ==
  << [k |-> "in_channels", v |-> IntV(3)],
     [k |-> "dim_layers", v |-> ListV("[32, 64, 128]")],
     [k |-> "residual", v |-> BoolV(TRUE)] >>

\* the run-state entries of a record: the epoch and the five metrics
RunState(ep, m) ==
  <<[k |-> "epoch", v |-> ep]>> \o [i \in 1..Len(MetricKeys) |-> [k |-> MetricKeys[i], v |-> m[MetricKeys[i]]]]

\* records a caller can pass: a fresh configuration, one whose metrics are
\* initialised to None, and one that carries the run state of a checkpoint
EntryDicts ==
  {FreshDict}
  \cup {FreshDict \o RunState(IntV(0), [key \in MetricKeySet |-> NoneV])}
  \cup {FreshDict \o RunState(IntV(1), [key \in MetricKeySet |-> IntV(b)]) : b \in 1..MaxMetric}

\* the metric the scheduler mode selects
ModeKey(mode) ==
  CASE mode = "min_loss" -> "train_loss"
    [] mode = "min_mse" -> "val_mse_age"
    [] mode = "max_acc" -> "train_acc"
    [] mode = "max_val_acc" -> "val_acc"
    [] mode = "max_val_mcc" -> "val_mcc"

\* variant of OptimizerConfigured without the else branch of line 137
OptimizerConfiguredAny(name) == TRUE
\* lines 131-138: the optimizer names that do not raise
OptimizerConfigured(name) == name \in Optimizers

\* lines 140-145: the scheduler modes that do not raise
SchedulerConfigured(mode) == mode \in MinModes \cup MaxModes

\* met: the epoch metric of the mode (None for a mode outside the five)
Met(mode, m) == IF mode \in MinModes \cup MaxModes THEN m[ModeKey(mode)] ELSE NoneV

\* variant of IsBetter with strict comparisons
IsBetterStrict(mode, m, dct) ==
  IF mode \notin MinModes \cup MaxModes THEN FALSE
  ELSE LET best_met == Get(dct, ModeKey(mode))
       IN IF best_met = NoneV THEN FALSE
          ELSE IF mode \in MinModes THEN m[ModeKey(mode)].n < best_met.n
          ELSE m[ModeKey(mode)].n > best_met.n

\* variant of IsBetter that counts a missing stored value as an improvement
IsBetterMissing(mode, m, dct) ==
  IF mode \notin MinModes \cup MaxModes THEN FALSE
  ELSE LET best_met == Get(dct, ModeKey(mode))
       IN IF best_met = NoneV THEN TRUE
          ELSE IF mode \in MinModes THEN m[ModeKey(mode)].n <= best_met.n
          ELSE m[ModeKey(mode)].n >= best_met.n

\* is_better: the epoch metric against the value stored in dict_model
IsBetter(mode, m, dct) ==
  IF mode \notin MinModes \cup MaxModes THEN FALSE
  ELSE LET best_met == Get(dct, ModeKey(mode))
       IN IF best_met = NoneV THEN FALSE
          ELSE IF mode \in MinModes THEN m[ModeKey(mode)].n <= best_met.n
          ELSE m[ModeKey(mode)].n >= best_met.n

\* variant of SaveDue without the is_better disjunct
SaveDuePeriodicOnly(ep, steps, better) == ep % steps = steps - 1
\* line 243: the condition of the save
SaveDue(ep, steps, better) == (ep % steps = steps - 1) \/ better

\* the canonical file name: the values of name_dict, joined and sanitized
CanonicalName(nd) ==
  LET text == StrList(Values(nd))
      inner == SubSeq(text, 2, Len(text) - 1)
  IN Replace(Replace(Replace(inner, ",", <<"_">>), "'", <<>>), " ", <<>>)

\* variant of NamePath that appends the epoch number to every save
NamePathAlwaysEpoch(nd, ep, better) == CanonicalName(nd) \o <<"_">> \o IntStr(ep + 1)
\* name_path: a periodic save appends the epoch number
NamePath(nd, ep, better) ==
  IF better THEN CanonicalName(nd) ELSE CanonicalName(nd) \o <<"_">> \o IntStr(ep + 1)

\* variant of SavesIntoCaller without the copy
SavesIntoCallerAlways(better) == TRUE
\* d = dict_model if is_better else dict_model.copy()
SavesIntoCaller(better) == better

\* the record d after the epoch number and the metrics are written into it
Stamp(dct, ep, m) == Update(dct, RunState(IntV(ep + 1), m))


(***************************************************************************)
(* State.                                                                  *)
(***************************************************************************)
VARIABLES
  pc,              \* position of the call of train
  optimizer_name,  \* argument of train
  scheduler_mode,  \* argument of train
  steps_save,      \* argument of train
  n_epochs,        \* argument of train
  dict_model,      \* the caller's configuration record
  entry_dict,      \* dict_model as it was when train was called
  name_dict,       \* local of train
  epoch,           \* loop variable of train (-1 before the first epoch)
  global_step,     \* local of train
  train_seen,      \* batches of loader_train processed in this epoch
  val_seen,        \* batches of loader_valid processed in this epoch
  batches_total,   \* batches processed by the call, both loaders
  sched_steps,     \* calls of scheduler.step
  metrics,         \* the epoch's reduced metrics, NoMetrics until they are reduced
  met,             \* local of train
  is_better,       \* local of train
  d,               \* local of train: the record handed to save_model
  saved            \* the calls of save_model so far: epoch, file name, is_better

trainVars == <<pc, optimizer_name, scheduler_mode, steps_save, n_epochs, dict_model,
               entry_dict, name_dict, epoch, global_step, train_seen, val_seen,
               batches_total, sched_steps, metrics, met, is_better, d, saved>>

NoMetrics == [key \in MetricKeySet |-> NoneV]
MetricVectors == [MetricKeySet -> {IntV(x) : x \in 1..MaxMetric}]

InitTrain ==
  /\ pc = "setup"
  /\ optimizer_name \in OptimizerInputs
  /\ scheduler_mode \in ModeInputs
  /\ steps_save \in 1..MaxStepsSave
  /\ n_epochs \in 1..MaxEpochs
  /\ dict_model \in EntryDicts
  /\ entry_dict = dict_model
  /\ name_dict = <<>>
  /\ epoch = -1
  /\ global_step = 0
  /\ train_seen = 0
  /\ val_seen = 0
  /\ batches_total = 0
  /\ sched_steps = 0
  /\ metrics = NoMetrics
  /\ met = NoneV
  /\ is_better = FALSE
  /\ d = <<>>
  /\ saved = <<>>

(***************************************************************************)
(* train, step by step.                                                    *)
(***************************************************************************)
\* lines 67-129: dict_param, name_dict, the update of dict_model, the loaders
Setup ==
  /\ pc = "setup"
  /\ name_dict' = Update(dict_model, DictParam(optimizer_name, scheduler_mode))
  /\ dict_model' = Update(dict_model, DictParam(optimizer_name, scheduler_mode))
  /\ pc' = "optimizer"
  /\ UNCHANGED <<optimizer_name, scheduler_mode, steps_save, n_epochs, entry_dict, epoch,
                 global_step, train_seen, val_seen, batches_total, sched_steps, metrics,
                 met, is_better, d, saved>>

\* lines 131-138
ChooseOptimizer ==
  /\ pc = "optimizer"
  /\ pc' = IF OptimizerConfigured(optimizer_name) THEN "scheduler" ELSE "raised"
  /\ UNCHANGED <<optimizer_name, scheduler_mode, steps_save, n_epochs, dict_model,
                 entry_dict, name_dict, epoch, global_step, train_seen, val_seen,
                 batches_total, sched_steps, metrics, met, is_better, d, saved>>

\* lines 140-147
ChooseScheduler ==
  /\ pc = "scheduler"
  /\ pc' = IF SchedulerConfigured(scheduler_mode) THEN "epoch_head" ELSE "raised"
  /\ met' = NoneV
  /\ UNCHANGED <<optimizer_name, scheduler_mode, steps_save, n_epochs, dict_model,
                 entry_dict, name_dict, epoch, global_step, train_seen, val_seen,
                 batches_total, sched_steps, metrics, is_better, d, saved>>

\* lines 149-158: the next epoch of trange(n_epochs), or the end of the loop
EpochHead ==
  /\ pc = "epoch_head"
  /\ IF epoch + 1 < n_epochs
     THEN /\ epoch' = epoch + 1
          /\ train_seen' = 0
          /\ val_seen' = 0
          /\ metrics' = NoMetrics
          /\ pc' = "train"
     ELSE /\ pc' = "done"
          /\ UNCHANGED <<epoch, train_seen, val_seen, metrics>>
  /\ UNCHANGED <<optimizer_name, scheduler_mode, steps_save, n_epochs, dict_model,
                 entry_dict, name_dict, global_step, batches_total, sched_steps, met,
                 is_better, d, saved>>

\* lines 159-178: one batch of loader_train
TrainBatch ==
  /\ pc = "train"
  /\ train_seen < NTrainBatches
  /\ train_seen' = train_seen + 1
  /\ batches_total' = batches_total + 1
  /\ UNCHANGED <<pc, optimizer_name, scheduler_mode, steps_save, n_epochs, dict_model,
                 entry_dict, name_dict, epoch, global_step, val_seen, sched_steps,
                 metrics, met, is_better, d, saved>>

\* lines 180-184: loader_train is exhausted, evaluation starts
StartEval ==
  /\ pc = "train"
  /\ train_seen = NTrainBatches
  /\ pc' = "val"
  /\ UNCHANGED <<optimizer_name, scheduler_mode, steps_save, n_epochs, dict_model,
                 entry_dict, name_dict, epoch, global_step, train_seen, val_seen,
                 batches_total, sched_steps, metrics, met, is_better, d, saved>>

\* lines 185-191: one batch of loader_valid
ValBatch ==
  /\ pc = "val"
  /\ val_seen < NValBatches
  /\ val_seen' = val_seen + 1
  /\ batches_total' = batches_total + 1
  /\ UNCHANGED <<pc, optimizer_name, scheduler_mode, steps_save, n_epochs, dict_model,
                 entry_dict, name_dict, epoch, global_step, train_seen, sched_steps,
                 metrics, met, is_better, d, saved>>

\* lines 193-223: the epoch means, met and is_better
EpochMetrics ==
  /\ pc = "val"
  /\ val_seen = NValBatches
  /\ \E m \in MetricVectors :
       /\ metrics' = m
       /\ met' = Met(scheduler_mode, m)
       /\ is_better' = IsBetter(scheduler_mode, m, dict_model)
  /\ pc' = "step"
  /\ UNCHANGED <<optimizer_name, scheduler_mode, steps_save, n_epochs, dict_model,
                 entry_dict, name_dict, epoch, global_step, train_seen, val_seen,
                 batches_total, sched_steps, d, saved>>

\* lines 225-240: scheduler.step(met) and the scalars of the epoch
StepAndLog ==
  /\ pc = "step"
  /\ sched_steps' = IF met # NoneV THEN sched_steps + 1 ELSE sched_steps
  /\ global_step' = global_step + 1
  /\ pc' = "save"
  /\ UNCHANGED <<optimizer_name, scheduler_mode, steps_save, n_epochs, dict_model,
                 entry_dict, name_dict, epoch, train_seen, val_seen, batches_total,
                 metrics, met, is_better, d, saved>>

\* variant of Save with the save block placed before the scheduler step
SaveBeforeStep ==
  /\ pc = "step"
  /\ IF SaveDue(epoch, steps_save, is_better)
     THEN /\ d' = Stamp(dict_model, epoch, metrics)
          /\ dict_model' = IF SavesIntoCaller(is_better) THEN d' ELSE dict_model
          /\ saved' = Append(saved, [epoch |-> epoch,
                                     name |-> NamePath(name_dict, epoch, is_better),
                                     better |-> is_better])
     ELSE UNCHANGED <<d, dict_model, saved>>
  /\ pc' = "epoch_head"
  /\ UNCHANGED <<optimizer_name, scheduler_mode, steps_save, n_epochs, entry_dict,
                 name_dict, epoch, global_step, train_seen, val_seen, batches_total,
                 sched_steps, metrics, met, is_better>>

\* lines 242-260: the checkpoint of the epoch, when one is due
Save ==
  /\ pc = "save"
  /\ IF SaveDue(epoch, steps_save, is_better)
     THEN /\ d' = Stamp(dict_model, epoch, metrics)
          /\ dict_model' = IF SavesIntoCaller(is_better) THEN d' ELSE dict_model
          /\ saved' = Append(saved, [epoch |-> epoch,
                                     name |-> NamePath(name_dict, epoch, is_better),
                                     better |-> is_better])
     ELSE UNCHANGED <<d, dict_model, saved>>
  /\ pc' = "epoch_head"
  /\ UNCHANGED <<optimizer_name, scheduler_mode, steps_save, n_epochs, entry_dict,
                 name_dict, epoch, global_step, train_seen, val_seen, batches_total,
                 sched_steps, metrics, met, is_better>>

(***************************************************************************)
(* predict_age_gender: float32 values.  The age column is a float32        *)
(* tensor; the model keeps the float32 values that are 0, a power of two   *)
(* 2^e (of either sign), an infinity or NaN, on which square and sqrt are  *)
(* exact up to overflow and underflow.                                     *)
(***************************************************************************)
F32MaxExp == 127      \* largest exponent of a finite float32
F32MinExp == -149     \* exponent of the smallest positive (subnormal) float32
F32MinNormalExp == -126  \* exponent of the smallest positive normal float32

Pow2(neg, e) == [c |-> "pow2", neg |-> neg, e |-> e]
Zero(neg) == [c |-> "zero", neg |-> neg, e |-> 0]
Inf(neg) == [c |-> "inf", neg |-> neg, e |-> 0]
NaN == [c |-> "nan", neg |-> FALSE, e |-> 0]

\* tensor.square(): x * x, rounded to nearest even
Square(x) ==
  CASE x.c = "nan" -> NaN
    [] x.c = "inf" -> Inf(FALSE)
    [] x.c = "zero" -> Zero(FALSE)
    [] x.c = "pow2" ->
         IF 2 * x.e > F32MaxExp THEN Inf(FALSE)
         ELSE IF 2 * x.e < F32MinExp THEN Zero(FALSE)
         ELSE Pow2(FALSE, 2 * x.e)

\* tensor.sqrt(); of the powers of two only the even ones are squares
Sqrt(x) ==
  CASE x.c = "nan" -> NaN
    [] x.c = "zero" -> x
    [] x.c = "inf" -> IF x.neg THEN NaN ELSE x
    [] x.c = "pow2" /\ x.neg -> NaN
    [] x.c = "pow2" /\ ~x.neg /\ x.e % 2 = 0 -> Pow2(FALSE, x.e \div 2)

\* |x|
Abs(x) == IF x.c = "nan" THEN NaN ELSE [x EXCEPT !.neg = FALSE]

\* x >= 0 as float32 compares (false for NaN, true for -0.0)
NonNegative(x) == x.c # "nan" /\ (x.c = "zero" \/ ~x.neg)

\* variant of ForcePositive that clamps a negative age to 0
ForcePositiveClamp(x) == IF x.c # "nan" /\ x.neg THEN Zero(FALSE) ELSE x
\* line 490: res[:,1].square().sqrt()
ForcePositive(x) == Sqrt(Square(x))

\* rows the model can return for an image: a gender logit and a raw age
RawAges == {Pow2(FALSE, 5), Pow2(TRUE, 5), Pow2(TRUE, 64), Pow2(FALSE, -75), Zero(FALSE), NaN}
RawLogits == {-1, 1}
RawOutputs == [gender : RawLogits, age : RawAges]

\* torch.sigmoid of the logits of RawLogits (and of 0), in hundredths
Sigmoid(l) == CASE l = -1 -> 27 [] l = 0 -> 50 [] l = 1 -> 73
threshold == 50       \* 0.5, in hundredths

MaxImgs == 3          \* len(list_imgs) is drawn from 0..MaxImgs
MaxBatch == 3         \* batch_size is drawn from 1..MaxBatch

\* variant of EffectiveBatchSize that leaves the batch size alone for an empty list
BatchSizeShrunkNonEmpty(n, bs) == IF n < bs /\ n > 0 THEN n ELSE bs
\* variant of EffectiveBatchSize without the shrink
BatchSizeKept(n, bs) == bs
\* lines 462-463: batch size cannot be higher than the number of images
EffectiveBatchSize(n, bs) == IF n < bs THEN n ELSE bs

\* list_imgs[k:k + bs]
Slice(lst, k, bs) == SubSeq(lst, k + 1, IF k + bs < Len(lst) THEN k + bs ELSE Len(lst))

\* torch.cat(batches, dim=0)
RECURSIVE Cat(_)
Cat(batches) == IF batches = <<>> THEN <<>> ELSE Head(batches) \o Cat(Tail(batches))

\* lines 482-484: the gender column of one row
GenderColumn(logit, pr) ==
  IF pr THEN Sigmoid(logit) ELSE IF Sigmoid(logit) > threshold THEN 100 ELSE 0

VARIABLES
  ppc,          \* position of the call of predict_age_gender
  list_imgs,    \* argument: the image paths
  batch_size,   \* argument, then the effective batch size
  batch_arg,    \* batch_size as the caller passed it
  return_pr,    \* argument
  k,            \* loop variable
  predictions,  \* local: the list of batch tensors
  model_out,    \* the raw rows the model returned, in call order
  res           \* the tensor returned

predictVars == <<ppc, list_imgs, batch_size, batch_arg, return_pr, k, predictions,
                 model_out, res>>

InitPredict ==
  /\ ppc = "setup"
  /\ list_imgs \in {[i \in 1..n |-> i] : n \in 0..MaxImgs}
  /\ batch_size \in 1..MaxBatch
  /\ batch_arg = batch_size
  /\ return_pr \in BOOLEAN
  /\ k = 0
  /\ predictions = <<>>
  /\ model_out = <<>>
  /\ res = <<>>

\* lines 456-470
PredictSetup ==
  /\ ppc = "setup"
  /\ batch_size' = EffectiveBatchSize(Len(list_imgs), batch_size)
  /\ predictions' = <<>>
  /\ ppc' = "range"
  /\ UNCHANGED <<list_imgs, batch_arg, return_pr, k, model_out, res>>

\* line 471: range(0, len(list_imgs) - batch_size + 1, batch_size)
PredictRange ==
  /\ ppc = "range"
  /\ ppc' = IF batch_size = 0 THEN "raised" ELSE "loop"
  /\ k' = 0
  /\ UNCHANGED <<list_imgs, batch_size, batch_arg, return_pr, predictions, model_out, res>>

\* lines 472-485: one batch, or the end of the range
PredictBatch ==
  /\ ppc = "loop"
  /\ IF k < Len(list_imgs) - batch_size + 1
     THEN LET images == Slice(list_imgs, k, batch_size)
          IN \E out \in [1..Len(images) -> RawOutputs] :
               /\ model_out' = model_out \o [i \in 1..Len(images) |->
                                  [img |-> images[i], gender |-> out[i].gender, age |-> out[i].age]]
               /\ predictions' = Append(predictions, [i \in 1..Len(images) |->
                                  [img |-> images[i],
                                   gender |-> GenderColumn(out[i].gender, return_pr),
                                   age |-> out[i].age]])
               /\ k' = k + batch_size
               /\ ppc' = "loop"
     ELSE /\ ppc' = "cat"
          /\ UNCHANGED <<k, predictions, model_out>>
  /\ UNCHANGED <<list_imgs, batch_size, batch_arg, return_pr, res>>

\* lines 487-491: torch.cat raises on an empty list
PredictFinish ==
  /\ ppc = "cat"
  /\ IF predictions = <<>>
     THEN /\ ppc' = "raised"
          /\ UNCHANGED res
     ELSE /\ res' = [i \in 1..Len(Cat(predictions)) |->
                       [Cat(predictions)[i] EXCEPT !.age = ForcePositive(@)]]
          /\ ppc' = "returned"
  /\ UNCHANGED <<list_imgs, batch_size, batch_arg, return_pr, k, predictions, model_out>>

\* the call that is not under way
IdlePredict ==
  /\ ppc = "idle"
  /\ list_imgs = <<>>
  /\ batch_size = 1
  /\ batch_arg = 1
  /\ return_pr = TRUE
  /\ k = 0
  /\ predictions = <<>>
  /\ model_out = <<>>
  /\ res = <<>>

IdleTrain ==
  /\ pc = "idle"
  /\ optimizer_name = "adamw"
  /\ scheduler_mode = "min_mse"
  /\ steps_save = 1
  /\ n_epochs = 1
  /\ dict_model = FreshDict
  /\ entry_dict = FreshDict
  /\ name_dict = <<>>
  /\ epoch = -1
  /\ global_step = 0
  /\ train_seen = 0
  /\ val_seen = 0
  /\ batches_total = 0
  /\ sched_steps = 0
  /\ metrics = NoMetrics
  /\ met = NoneV
  /\ is_better = FALSE
  /\ d = <<>>
  /\ saved = <<>>

\* the positions at which a call of train can be interrupted
RunningPcs == {"setup", "optimizer", "scheduler", "epoch_head", "train", "val", "step", "save"}

\* the position of a call that was interrupted at position p
InterruptedAt(p) ==
  CASE p = "setup" -> "interrupted_setup"
    [] p = "optimizer" -> "interrupted_optimizer"
    [] p = "scheduler" -> "interrupted_scheduler"
    [] p = "epoch_head" -> "interrupted_epoch_head"
    [] p = "train" -> "interrupted_train"
    [] p = "val" -> "interrupted_val"
    [] p = "step" -> "interrupted_step"
    [] p = "save" -> "interrupted_save"

\* train has no handler and no cleanup: an interrupt ends the call where it
\* is and leaves whatever save_model already wrote
Interrupt ==
  /\ pc \in RunningPcs
  /\ pc' = InterruptedAt(pc)
  /\ UNCHANGED <<optimizer_name, scheduler_mode, steps_save, n_epochs, dict_model,
                 entry_dict, name_dict, epoch, global_step, train_seen, val_seen,
                 batches_total, sched_steps, metrics, met, is_better, d, saved>>

vars == <<trainVars, predictVars>>

Init == InitTrain /\ IdlePredict

Next ==
  \/ (Setup /\ UNCHANGED predictVars)
  \/ (ChooseOptimizer /\ UNCHANGED predictVars)
  \/ (ChooseScheduler /\ UNCHANGED predictVars)
  \/ (EpochHead /\ UNCHANGED predictVars)
  \/ (TrainBatch /\ UNCHANGED predictVars)
  \/ (StartEval /\ UNCHANGED predictVars)
  \/ (ValBatch /\ UNCHANGED predictVars)
  \/ (EpochMetrics /\ UNCHANGED predictVars)
  \/ (StepAndLog /\ UNCHANGED predictVars)
  \/ (Save /\ UNCHANGED predictVars)

Spec == Init /\ [][Next]_vars

\* train, with an interrupt possible at every position
NextInterruptible ==
  \/ (Setup /\ UNCHANGED predictVars)
  \/ (ChooseOptimizer /\ UNCHANGED predictVars)
  \/ (ChooseScheduler /\ UNCHANGED predictVars)
  \/ (EpochHead /\ UNCHANGED predictVars)
  \/ (TrainBatch /\ UNCHANGED predictVars)
  \/ (StartEval /\ UNCHANGED predictVars)
  \/ (ValBatch /\ UNCHANGED predictVars)
  \/ (EpochMetrics /\ UNCHANGED predictVars)
  \/ (StepAndLog /\ UNCHANGED predictVars)
  \/ (Save /\ UNCHANGED predictVars)
  \/ (Interrupt /\ UNCHANGED predictVars)

SpecInterruptible == Init /\ [][NextInterruptible]_vars

InitP == IdleTrain /\ InitPredict

NextP ==
  \/ (PredictSetup /\ UNCHANGED trainVars)
  \/ (PredictRange /\ UNCHANGED trainVars)
  \/ (PredictBatch /\ UNCHANGED trainVars)
  \/ (PredictFinish /\ UNCHANGED trainVars)

SpecPredict == InitP /\ [][NextP]_vars


(***************************************************************************)
(* Properties of train.                                                    *)
(***************************************************************************)
Canonical == CanonicalName(Update(entry_dict, DictParam(optimizer_name, scheduler_mode)))
Periodic(e) == e % steps_save = steps_save - 1
LastSaved == saved[Len(saved)]

\* C1: at the end of every epoch e exactly one checkpoint is written when
\* e mod steps_save = steps_save - 1 or is_better holds for the epoch, and
\* none is written otherwise (no other step of train writes a checkpoint).
C1_SavePolicy ==
  [][ /\ (pc = "save" /\ (Periodic(epoch) \/ is_better)) =>
           /\ Len(saved') = Len(saved) + 1
           /\ SubSeq(saved', 1, Len(saved)) = saved
           /\ saved'[Len(saved')].epoch = epoch
           /\ \A i \in 1..Len(saved) : saved[i].epoch < epoch
      /\ (pc = "save" /\ ~(Periodic(epoch) \/ is_better)) => saved' = saved
      /\ (pc # "save") => saved' = saved ]_vars

C1_Witness ==
  /\ pc = "done" /\ steps_save = 2 /\ n_epochs = 2 /\ Len(saved) = 2
  /\ saved[1].epoch = 0 /\ saved[1].better
  /\ saved[2].epoch = 1 /\ ~saved[2].better

\* C2: is_better is false when dict_model stores no value under the metric
\* key of the mode; otherwise it is (metric <= stored) for min_loss and
\* min_mse and (metric >= stored) for max_acc, max_val_acc and max_val_mcc.
C2_IsBetterValue ==
  (pc \in {"step", "save"}) =>
    \A mk \in { <<"min_loss", "train_loss">>, <<"min_mse", "val_mse_age">>,
                <<"max_acc", "train_acc">>, <<"max_val_acc", "val_acc">>,
                <<"max_val_mcc", "val_mcc">> } :
      scheduler_mode = mk[1] =>
        LET stored == Get(dict_model, mk[2])
        IN IF mk[2] \notin Keys(dict_model) \/ stored = NoneV
           THEN is_better = FALSE
           ELSE IF mk[1] \in {"min_loss", "min_mse"}
                THEN is_better = (metrics[mk[2]].n <= stored.n)
                ELSE is_better = (metrics[mk[2]].n >= stored.n)

C2_Witness ==
  /\ pc = "save" /\ scheduler_mode = "max_val_mcc" /\ is_better
  /\ metrics["val_mcc"].n = Get(dict_model, "val_mcc").n
  /\ metrics["val_mcc"].n = MaxMetric

\* C3: every save with is_better uses the one canonical file name, fixed by
\* the configuration before the first epoch; every save without is_better at
\* epoch k uses the canonical name followed by "_" and k+1, which differs
\* from the canonical name and from the name of every other periodic save.
C3_FileNames ==
  \A i \in 1..Len(saved) :
    /\ saved[i].better => saved[i].name = Canonical
    /\ ~saved[i].better =>
         /\ saved[i].name = Canonical \o <<"_">> \o IntStr(saved[i].epoch + 1)
         /\ saved[i].name # Canonical
         /\ \A j \in 1..Len(saved) :
              (j # i /\ ~saved[j].better) => saved[j].name # saved[i].name

C3_Witness ==
  /\ Len(saved) = 2 /\ saved[1].better /\ ~saved[2].better
  /\ saved[1].name = Canonical /\ saved[2].name # Canonical

\* C6: with an optimizer_name outside sgd, adam, adamw or a scheduler_mode
\* outside the five modes, train never enters an epoch, processes no batch
\* and writes no checkpoint: the call stops at the raise.
C6_UnsupportedRaises ==
  /\ (optimizer_name \notin {"sgd", "adam", "adamw"}) =>
       /\ pc \in {"setup", "optimizer", "raised"}
       /\ batches_total = 0 /\ saved = <<>> /\ epoch = -1
  /\ (scheduler_mode \notin {"min_loss", "min_mse", "max_acc", "max_val_acc", "max_val_mcc"}) =>
       /\ pc \in {"setup", "optimizer", "scheduler", "raised"}
       /\ batches_total = 0 /\ saved = <<>> /\ epoch = -1

C6_Witness == pc = "raised" /\ optimizer_name = "sgd" /\ scheduler_mode = "max_foo"

\* the entries of dict_model outside the key set allowed are those of entry_dict
OnlyMerged(allowed) ==
  /\ \A key \in Keys(dict_model) : key \in Keys(entry_dict) \/ key \in allowed
  /\ \A key \in Keys(entry_dict) \ allowed :
       key \in Keys(dict_model) /\ Get(dict_model, key) = Get(entry_dict, key)

\* C7 as claimed: during any call of train dict_model changes only by the
\* run-state keys (epoch and the five metrics) being merged in.
C7_OnlyMetricKeysMerged == OnlyMerged(RunStateKeys)

\* C7 as amended: during any call of train, a failing one included,
\* dict_model changes only by the six train_ parameter keys (merged in at
\* setup) and the run-state keys being merged in; every other entry stays.
C7_OnlyParamAndMetricKeysMerged == OnlyMerged(TrainParamKeys \cup RunStateKeys)

C7_Witness ==
  /\ pc = "done" /\ "train_lr" \in Keys(dict_model) /\ "epoch" \in Keys(entry_dict)
  /\ Get(dict_model, "epoch") # Get(entry_dict, "epoch")

\* C9: a save at an epoch where is_better is false writes the epoch number
\* and the five metrics into a copy only: dict_model is the same after the
\* save as before it, and the file written is not the canonical one.
C9_PeriodicSaveLeavesBest ==
  [][ (pc = "save" /\ ~is_better /\ saved' # saved) =>
        /\ dict_model' = dict_model
        /\ Get(d', "epoch") = IntV(epoch + 1)
        /\ \A key \in MetricKeySet : Get(d', key) = metrics[key]
        /\ \A key \in Keys(dict_model) \ RunStateKeys : Get(d', key) = Get(dict_model, key)
        /\ saved'[Len(saved')].name # Canonical ]_vars

C9_Witness ==
  /\ pc = "epoch_head" /\ saved # <<>> /\ ~LastSaved.better
  /\ "train_loss" \in Keys(dict_model)
  /\ Get(dict_model, "train_loss") # NoneV
  /\ Get(d, "train_loss") # Get(dict_model, "train_loss")

\* C10: in a run whose record does not contain the metric key of the mode on
\* entry, is_better is false at every epoch, the record never acquires the
\* key, the canonical file is never written and every checkpoint is a
\* periodic one.
C10_NoStoredBestNeverBetter ==
  (scheduler_mode \in MinModes \cup MaxModes /\ ModeKey(scheduler_mode) \notin Keys(entry_dict)) =>
    /\ is_better = FALSE
    /\ ModeKey(scheduler_mode) \notin Keys(dict_model)
    /\ \A i \in 1..Len(saved) :
         /\ ~saved[i].better
         /\ saved[i].name # Canonical
         /\ Periodic(saved[i].epoch)

C10_Witness ==
  /\ pc = "done" /\ entry_dict = FreshDict /\ scheduler_mode = "min_loss"
  /\ steps_save = 2 /\ n_epochs = 2 /\ Len(saved) = 1

(***************************************************************************)
(* Properties of predict_age_gender.                                       *)
(***************************************************************************)
\* C4: predict_age_gender returns one row per input image, row i for image i.
C4_OneRowPerImage ==
  (ppc = "returned") =>
    /\ Len(res) = Len(list_imgs)
    /\ \A i \in 1..Len(res) : res[i].img = list_imgs[i]

\* C5: with B >= 1 images and B < batch_size the effective batch size is B,
\* the model runs on exactly one batch of B images and B rows are returned.
C5_SmallInputOneBatch ==
  (Len(list_imgs) >= 1 /\ Len(list_imgs) < batch_arg) =>
    /\ ppc # "raised"
    /\ (ppc # "setup") => batch_size = Len(list_imgs)
    /\ Len(predictions) <= 1
    /\ \A i \in 1..Len(predictions) : Len(predictions[i]) = Len(list_imgs)
    /\ (ppc \in {"cat", "returned"}) => Len(predictions) = 1
    /\ (ppc = "returned") => Len(res) = Len(list_imgs)

C5_Witness == ppc = "returned" /\ Len(list_imgs) = 2 /\ batch_arg = 3 /\ Len(res) = 2

\* the square of x is a normal float32 (or x is zero): no overflow, no underflow
SquareIsExact(x) ==
  \/ x.c = "zero"
  \/ x.c = "pow2" /\ 2 * x.e >= F32MinNormalExp /\ 2 * x.e <= F32MaxExp

InterruptedInEpoch ==
  pc \in {"interrupted_train", "interrupted_val", "interrupted_step", "interrupted_save"}

\* C11: the checkpoint of epoch e is written only after every training batch
\* and every validation batch of e is processed and the scheduler is stepped
\* for e; an interrupt writes and removes nothing, and in a run interrupted
\* inside an epoch every checkpoint is one of an earlier, completed epoch.
C11_SaveOnlyAfterWholeEpoch ==
  /\ [](InterruptedInEpoch => \A i \in 1..Len(saved) : saved[i].epoch < epoch)
  /\ [][ /\ (saved' # saved) =>
              /\ train_seen = NTrainBatches
              /\ val_seen = NValBatches
              /\ batches_total = (epoch + 1) * (NTrainBatches + NValBatches)
              /\ sched_steps = epoch + 1
              /\ saved'[Len(saved')].epoch = epoch
         /\ (pc' \notin RunningPcs \cup {"done", "raised"}) => saved' = saved ]_vars

C11_Witness ==
  /\ pc = "interrupted_save" /\ epoch = 1 /\ steps_save = 1
  /\ train_seen = NTrainBatches /\ val_seen = NValBatches /\ sched_steps = 2
  /\ Len(saved) = 1 /\ saved[1].epoch = 0

====
